---- MODULE Spec2Model ----
(***************************************************************************)
(* Domain checker (Skiddle-ID/domainchecker): the libsql store adapter     *)
(* (src/src/db.ts) and the POST /check pipeline (src/src/index.ts).        *)
(*                                                                         *)
(* One step of the model is one awaited operation of the code (a store     *)
(* statement executed by client.execute, or one fetch of the external      *)
(* API) together with the synchronous JavaScript that follows it up to     *)
(* the next await.  Requests interleave at these awaits only.              *)
(***************************************************************************)
EXTENDS Integers, Sequences, FiniteSets, TLC

(***************************************************************************)
(* Bounds.  The program's limits are parameters of the functions that use  *)
(* them; the model runs them at small values.                              *)
(***************************************************************************)
\* maxDomains of checkRateLimit (RATE_LIMIT.MAX_DOMAINS, 1000 in index.ts:21)
MaxDomains == 4
\* MAX_DOMAINS_PER_REQUEST (100 in index.ts:24)
MaxPerRequest == 3
\* batchSize (30 in index.ts:127)
BatchSize == 2
\* windowMinutes * 60 * 1000 (10 minutes in index.ts:22), in clock ticks
Window == 2
\* the clock stops here
MaxTime == 4
\* requests (or direct store-adapter calls) issued in one run
MaxRequests == 3

\* a slot is an isolate serving one request (or direct call) at a time; what an isolate
\* keeps between requests is its module variable `client` (db.ts 3)
Slots == {1, 2}
Clients == {"ip1", "ip2"}
DomainNames == {"a.com", "b.com"}

VARIABLES
    tables,       \* names of the tables that exist in the database
    stats,        \* table stats: sequence of rows
    rate_limits,  \* table rate_limits: set of rows [ip, count, timestamp]
    now,          \* Date.now()
    storeUp,      \* FALSE: every client.execute rejects
    req,          \* per slot: the request (or direct call) in flight and its locals
    arrivals,     \* number of requests issued so far
    granted,      \* history: per client, domains allowed since its entry was created
    windowFirst,  \* history: per client, time of the request that created its entry (-1: none)
    tallied,      \* history: per-result tallies of the requests answered 200
    succeeded     \* history: store-adapter functions that have returned normally

store == <<tables, stats, rate_limits>>
hist == <<granted, windowFirst, tallied, succeeded>>
vars == <<tables, stats, rate_limits, now, storeUp, req, arrivals,
          granted, windowFirst, tallied, succeeded>>

(***************************************************************************)
(* The database.                                                           *)
(***************************************************************************)
\* INSERT INTO stats ... VALUES ("global", 0, 0, 0, 0, 0, now, "[]")
DefaultStatsRow(t) ==
    [id |-> "global", total_requests |-> 0, total_domains_checked |-> 0,
     blocked_domains |-> 0, not_blocked_domains |-> 0, error_domains |-> 0,
     last_reset |-> t, unique_users |-> <<>>]

\* SELECT ... FROM stats WHERE id = "global"
SelectStats(tbl) == SelectSeq(tbl, LAMBDA row : row.id = "global")

InsertStatsNoPrimaryKey(tbl, row) == [ok |-> TRUE, rows |-> Append(tbl, row)]

InsertStatsOrReplace(tbl, row) ==
    [ok |-> TRUE,
     rows |-> IF \E k \in 1..Len(tbl) : tbl[k].id = row.id
              THEN [k \in 1..Len(tbl) |-> IF tbl[k].id = row.id THEN row ELSE tbl[k]]
              ELSE Append(tbl, row)]

\* INSERT INTO stats (...) VALUES (...) on a table whose id is TEXT PRIMARY KEY:
\* rejected (ok = FALSE, the table as it was) when the id is already present
InsertStats(tbl, row) ==
    IF \E k \in 1..Len(tbl) : tbl[k].id = row.id
    THEN [ok |-> FALSE, rows |-> tbl]
    ELSE [ok |-> TRUE, rows |-> Append(tbl, row)]

\* a client.execute on table t resolves (otherwise it rejects and the caller's catch runs)
StoreOk(t) == storeUp /\ t \in tables

ZeroDelta ==
    [requests |-> 0, domainsChecked |-> 0, blocked |-> 0, notBlocked |-> 0, errors |-> 0]

\* incrementStats: the SET clauses pushed to `updates` (a delta that is absent or 0 is falsy)
Updates(d) ==
    {c \in {"requests", "domainsChecked", "blocked", "notBlocked", "errors"} : d[c] # 0}

ApplyDeltaOverwrite(row, d) ==
    [row EXCEPT
        !.total_requests = IF "requests" \in Updates(d) THEN d.requests ELSE @,
        !.total_domains_checked = IF "domainsChecked" \in Updates(d) THEN d.domainsChecked ELSE @,
        !.blocked_domains = IF "blocked" \in Updates(d) THEN d.blocked ELSE @,
        !.not_blocked_domains = IF "notBlocked" \in Updates(d) THEN d.notBlocked ELSE @,
        !.error_domains = IF "errors" \in Updates(d) THEN d.errors ELSE @]

ApplyDeltaSkipErrors(row, d) ==
    [row EXCEPT
        !.total_requests = IF "requests" \in Updates(d) THEN @ + d.requests ELSE @,
        !.total_domains_checked = IF "domainsChecked" \in Updates(d) THEN @ + d.domainsChecked ELSE @,
        !.blocked_domains = IF "blocked" \in Updates(d) THEN @ + d.blocked ELSE @,
        !.not_blocked_domains = IF "notBlocked" \in Updates(d) THEN @ + d.notBlocked ELSE @]

\* SET total_requests = total_requests + n, ... for the clauses in `updates`
ApplyDelta(row, d) ==
    [row EXCEPT
        !.total_requests = IF "requests" \in Updates(d) THEN @ + d.requests ELSE @,
        !.total_domains_checked = IF "domainsChecked" \in Updates(d) THEN @ + d.domainsChecked ELSE @,
        !.blocked_domains = IF "blocked" \in Updates(d) THEN @ + d.blocked ELSE @,
        !.not_blocked_domains = IF "notBlocked" \in Updates(d) THEN @ + d.notBlocked ELSE @,
        !.error_domains = IF "errors" \in Updates(d) THEN @ + d.errors ELSE @]

\* UPDATE stats SET ... WHERE id = "global"
UpdateStats(tbl, d) ==
    [k \in 1..Len(tbl) |-> IF tbl[k].id = "global" THEN ApplyDelta(tbl[k], d) ELSE tbl[k]]

PurgeRateLimitsInclusive(tbl, windowStart) == {row \in tbl : ~(row.timestamp <= windowStart)}

\* DELETE FROM rate_limits WHERE timestamp < windowStart
PurgeRateLimits(tbl, windowStart) == {row \in tbl : ~(row.timestamp < windowStart)}

\* SELECT count, timestamp FROM rate_limits WHERE ip = ?   (result.rows)
SelectRateLimit(tbl, ip) == {row \in tbl : row.ip = ip}

\* ip TEXT PRIMARY KEY, UNIQUE(ip)
RateLimitKeyFree(tbl, ip) == \A row \in tbl : row.ip # ip

\* INSERT INTO rate_limits (ip, count, timestamp) VALUES (ip, domainCount, now)
InsertRateLimit(tbl, ip, count, t) == tbl \cup {[ip |-> ip, count |-> count, timestamp |-> t]}

UpdateRateLimitAdd(tbl, ip, count, t) ==
    {IF row.ip = ip THEN [row EXCEPT !.count = @ + count, !.timestamp = t] ELSE row : row \in tbl}

UpdateRateLimitKeepTimestamp(tbl, ip, count, t) ==
    {IF row.ip = ip THEN [row EXCEPT !.count = count] ELSE row : row \in tbl}

UpdateRateLimitKeepCount(tbl, ip, count, t) ==
    {IF row.ip = ip THEN [row EXCEPT !.timestamp = t] ELSE row : row \in tbl}

\* UPDATE rate_limits SET count = totalCount, timestamp = now WHERE ip = ?
UpdateRateLimit(tbl, ip, count, t) ==
    {IF row.ip = ip THEN [row EXCEPT !.count = count, !.timestamp = t] ELSE row : row \in tbl}

(***************************************************************************)
(* The external block-check API and checkBatch (index.ts 171-227).         *)
(***************************************************************************)
\* what one GET <endpoint>?domains=...&json=true can produce:
\*   "network"   fetch rejects                  "status"  response.ok is false
\*   "badjson"   response.json() rejects        "notobject"  the body is no object
\*   "ok"        the body is an object; data[d] says what it holds for domain d:
\*               "absent" (no such key), "scalar" (a value that is no object),
\*               "blocked" ({blocked: true}), "open" ({blocked: false})
ApiKinds == {"network", "status", "badjson", "notobject", "ok"}
ApiEntries == {"absent", "scalar", "blocked", "open"}
NoData == [d \in DomainNames |-> "absent"]

Range(s) == {s[k] : k \in 1..Len(s)}

ApiOutcomes(batch) ==
    {[kind |-> k, data |-> NoData] : k \in ApiKinds \ {"ok"}}
    \cup {[kind |-> "ok", data |-> f] :
            f \in {g \in [DomainNames -> ApiEntries] :
                     \A d \in DomainNames \ Range(batch) : g[d] = "absent"}}

\* the external API fails, or reports every domain of the batch alike
PlainOutcomes(batch) ==
    {[kind |-> "network", data |-> NoData]}
    \cup {[kind |-> "ok", data |-> [d \in DomainNames |->
                                      IF d \in Range(batch) THEN e ELSE "absent"]] :
            e \in {"blocked", "open"}}

\* the external API reports every domain as not blocked
OpenOutcome(batch) ==
    {[kind |-> "ok", data |-> [d \in DomainNames |->
                                 IF d \in Range(batch) THEN "open" ELSE "absent"]]}

\* what the external API may answer in a run: "any" answer, a "plain" one, an "open" one
Outcomes(api, batch) ==
    CASE api = "any" -> ApiOutcomes(batch)
      [] api = "plain" -> PlainOutcomes(batch)
      [] OTHER -> OpenOutcome(batch)

ApiFailedResultAsInvalid(domain) ==
    [originalUrl |-> domain, status |-> "Error: Invalid response",
     blocked |-> FALSE, error |-> TRUE]

\* the catch of checkBatch: every domain of the batch
ApiFailedResult(domain) ==
    [originalUrl |-> domain, status |-> "Error: API request failed",
     blocked |-> FALSE, error |-> TRUE]

DomainResultNoTypeCheck(domain, entry) ==
    IF entry = "absent"
    THEN [originalUrl |-> domain, status |-> "Error: Invalid response",
          blocked |-> FALSE, error |-> TRUE]
    ELSE [originalUrl |-> domain,
          status |-> IF entry = "blocked" THEN "Blocked" ELSE "Not Blocked",
          blocked |-> (entry = "blocked"), error |-> FALSE]

\* the callback of domains.map on a parsed body
DomainResult(domain, entry) ==
    IF entry \in {"absent", "scalar"}
    THEN [originalUrl |-> domain, status |-> "Error: Invalid response",
          blocked |-> FALSE, error |-> TRUE]
    ELSE [originalUrl |-> domain,
          status |-> IF entry = "blocked" THEN "Blocked" ELSE "Not Blocked",
          blocked |-> (entry = "blocked"), error |-> FALSE]

CheckBatch(domains, out) ==
    IF out.kind # "ok"
    THEN [k \in 1..Len(domains) |-> ApiFailedResult(domains[k])]
    ELSE [k \in 1..Len(domains) |-> DomainResult(domains[k], out.data[domains[k]])]

Min(a, b) == IF a < b THEN a ELSE b

SliceOffByOne(domains, i, j) == SubSeq(domains, i + 1, Min(j + 1, Len(domains)))

\* domains.slice(i, i + batchSize), i counted from 0
Slice(domains, i, j) == SubSeq(domains, i + 1, Min(j, Len(domains)))

\* the for-of loop over batchResults: processed++, then errors++ / blocked++ / notBlocked++
RECURSIVE TallyResults(_, _)
TallyResults(q, rs) ==
    IF rs = <<>> THEN q
    ELSE LET x == Head(rs)
             q1 == [q EXCEPT !.processed = @ + 1,
                             !.errors = IF x.error THEN @ + 1 ELSE @,
                             !.blocked = IF ~x.error /\ x.blocked THEN @ + 1 ELSE @,
                             !.notBlocked = IF ~x.error /\ ~x.blocked THEN @ + 1 ELSE @]
         IN TallyResults(q1, Tail(rs))

(***************************************************************************)
(* A request and its locals.                                               *)
(***************************************************************************)
NoRateLimit == [allowed |-> FALSE, remaining |-> -1, resetTime |-> -1]
NoResp == [status |-> 0, results |-> <<>>, remaining |-> -1, resetTime |-> -1, stats |-> <<>>]

\* the routes of index.ts 71-100; the pages are GET / and GET /stats
Pages == {"/", "/stats"}
Routes == {"/check", "/stats/data"} \cup Pages

IdleReq ==
    [pc |-> "idle",        \* the awaited operation
     route |-> "none",     \* c.req.path of an HTTP request
     client |-> FALSE,     \* the isolate's module variable `client` is set (db.ts 3)
     cold |-> FALSE,       \* the request in flight found it null and created the client
     site |-> "none",      \* who called the store-adapter function that is running
     ip |-> "none",
     \* body.domains: an array of items, or a value that is no array and is falsy
     \* (absent, null, 0, "", false) or not
     body |-> [isArray |-> TRUE, falsy |-> FALSE, items |-> <<>>],
     delta |-> ZeroDelta,  \* incrementStats: its stats argument
     now |-> 0, usage |-> {},     \* checkRateLimit: const now, result.rows
     rateLimit |-> NoRateLimit,   \* what checkRateLimit returned
     threw |-> FALSE,             \* history: checkRateLimit returned from its catch
     stale |-> FALSE,             \* history: at the call, the window had elapsed past
                                  \* the request that created the client's entry
     refused |-> FALSE,           \* history: the caller's previous call was rejected
     fn |-> "none",               \* a direct call: the function called
     i |-> 0, results |-> <<>>,
     processed |-> 0, blocked |-> 0, notBlocked |-> 0, errors |-> 0,
     apiLog |-> <<>>,             \* history: the outcome of each external call
     sent |-> <<>>,               \* history: the batch of each external call issued
     inflight |-> 0,              \* external calls issued and not yet completed
     resp |-> NoResp,
     ret |-> "none"]              \* a direct call: "ok" or "throw"

\* initializeDbClient at the first store call of a request served by an isolate that
\* was left in state prev: `if (client) return client`, else the client is created
\* (db.ts 6-33); the locals of the request are fresh
InitializeDbClient(prev) == [IdleReq EXCEPT !.client = TRUE, !.cold = ~prev.client]

\* c.json(..., status) or c.html(...): 200 carries results, 200 and 429 carry
\* remaining and resetTime
Respond(q, status) ==
    [IdleReq EXCEPT !.pc = "done", !.route = q.route, !.client = q.client,
              !.ip = q.ip, !.body = q.body,
              !.threw = q.threw, !.stale = q.stale,
              !.resp = [status |-> status,
                        results |-> IF status = 200 THEN q.results ELSE <<>>,
                        remaining |-> IF status \in {200, 429} THEN q.rateLimit.remaining ELSE -1,
                        resetTime |-> IF status \in {200, 429} THEN q.rateLimit.resetTime ELSE -1,
                        stats |-> <<>>]]

\* a store-adapter function called directly returns to its caller
ReturnDirect(q, ok) ==
    [q EXCEPT !.pc = "idle", !.site = "none", !.delta = ZeroDelta, !.cold = FALSE,
              !.ret = IF ok THEN "ok" ELSE "throw"]

\* app.post('/check') up to the first await of checkRateLimit (index.ts 100-116, db.ts 217-224)
HandlerNoSizeCheck(q, t) ==
    IF ~q.body.isArray /\ ~q.body.falsy THEN Respond(q, 400)
    ELSE [q EXCEPT !.pc = "rl_delete", !.site = "none", !.delta = ZeroDelta, !.now = t]

HandlerChecksFirst(q, t) ==
    IF ~q.body.isArray /\ ~q.body.falsy THEN Respond(q, 400)
    ELSE IF Len(q.body.items) > MaxPerRequest THEN Respond(q, 400)
    ELSE [q EXCEPT !.pc = IF 0 < Len(q.body.items) THEN "fetch" ELSE "rl_delete",
                   !.site = "none", !.delta = ZeroDelta, !.now = t]

\* `body.domains || []` turns a falsy value into the empty list
Handler(q, t) ==
    IF ~q.body.isArray /\ ~q.body.falsy THEN Respond(q, 400)
    ELSE IF Len(q.body.items) > MaxPerRequest THEN Respond(q, 400)
    ELSE [q EXCEPT !.pc = "rl_delete", !.site = "none", !.delta = ZeroDelta, !.now = t]

\* incrementStats has resolved (ok) or rejected
AfterIncrementStats(q, ok, t) ==
    CASE q.site = "statsmw" -> Handler(q, t)
      [] q.site = "final" -> IF ok THEN Respond(q, 200) ELSE Respond(q, 500)
      [] OTHER -> ReturnDirect(q, ok)

EnterIncrementStatsAlways(q, site, d, t) ==
    [q EXCEPT !.site = site, !.delta = d, !.pc = "is_select"]

\* incrementStats up to its first await (db.ts 142-179): nothing to update, nothing awaited
EnterIncrementStats(q, site, d, t) ==
    LET q1 == [q EXCEPT !.site = site, !.delta = d]
    IN IF Updates(d) = {} THEN AfterIncrementStats(q1, TRUE, t)
       ELSE [q1 EXCEPT !.pc = "is_select"]

\* the body of the answer of GET /stats/data (index.ts 82-90), lastReset left out;
\* Number(x) || 0 of getStats (db.ts 126-131) is x on a counter, JSON.parse of the
\* stored text is the stored list
StatsJson(row) ==
    [totalRequests |-> row.total_requests,
     totalDomainsChecked |-> row.total_domains_checked,
     blockedDomains |-> row.blocked_domains,
     notBlockedDomains |-> row.not_blocked_domains,
     errorDomains |-> row.error_domains,
     uniqueUsers |-> row.unique_users]

\* getStats has resolved with the row of rows, or rejected: app.get('/stats/data')
\* (index.ts 79-98)
AfterGetStats(q, ok, rows) ==
    IF q.site = "data"
    THEN IF ok THEN [Respond(q, 200) EXCEPT !.resp.stats = <<StatsJson(rows[1])>>]
         ELSE Respond(q, 500)
    ELSE ReturnDirect(q, ok)

AfterInitializeTablesAlwaysNext(q, ok, t) ==
    CASE q.site = "http" /\ q.route = "/check" ->
            EnterIncrementStats(q, "statsmw", [ZeroDelta EXCEPT !.requests = 1], t)
      [] q.site = "http" /\ q.route = "/stats/data" ->
            [q EXCEPT !.pc = "gs_select", !.site = "data"]
      [] q.site = "http" -> Respond(q, 200)
      [] OTHER -> ReturnDirect(q, ok)

\* initializeTables has resolved or rejected: the two middlewares of index.ts 34-68.
\* On a rejection /check and /stats/data are answered 500, a page goes on to next();
\* the stats middleware counts POST /check only; a page handler returns c.html(...)
AfterInitializeTables(q, ok, t) ==
    CASE q.site = "http" /\ q.route = "/check" ->
            IF ok THEN EnterIncrementStats(q, "statsmw", [ZeroDelta EXCEPT !.requests = 1], t)
            ELSE Respond(q, 500)
      [] q.site = "http" /\ q.route = "/stats/data" ->
            IF ok THEN [q EXCEPT !.pc = "gs_select", !.site = "data"]
            ELSE Respond(q, 500)
      [] q.site = "http" -> Respond(q, 200)
      [] OTHER -> ReturnDirect(q, ok)

FinalStatsUnlessAllFailed(q, t) ==
    IF q.processed > 0 /\ q.errors = q.processed THEN Respond(q, 500)
    ELSE EnterIncrementStats(q, "final",
            [requests |-> 1, domainsChecked |-> q.processed, blocked |-> q.blocked,
             notBlocked |-> q.notBlocked, errors |-> q.errors], t)

FinalStatsDeferred(q, t) == Respond(q, 200)

\* index.ts 151-158
FinalStats(q, t) ==
    EnterIncrementStats(q, "final",
        [requests |-> 1, domainsChecked |-> q.processed, blocked |-> q.blocked,
         notBlocked |-> q.notBlocked, errors |-> q.errors], t)

\* checkRateLimit has returned rl, to a direct caller or to app.post('/check')
\* (index.ts 117-133): 429, or into the batch loop.  Nothing after checkRateLimit
\* depends on whether this request created the isolate's client.
AfterCheckRateLimit(q, rl, t) ==
    LET q1 == [q EXCEPT !.rateLimit = rl, !.usage = {}, !.cold = FALSE]
    IN IF q.site = "direct" THEN ReturnDirect(q1, TRUE)
       ELSE IF ~rl.allowed THEN Respond(q1, 429)
       ELSE IF 0 < Len(q1.body.items) THEN [q1 EXCEPT !.pc = "fetch", !.i = 0]
       ELSE FinalStats(q1, t)

\* the return values of checkRateLimit (db.ts 237-241, 250-254, 260-264, 274-278, 282-286)
RejectNewNothingLeft(q) ==
    [allowed |-> FALSE, remaining |-> 0, resetTime |-> q.now + Window]
RejectNew(q) ==
    [allowed |-> FALSE, remaining |-> MaxDomains, resetTime |-> q.now + Window]
AllowNewWholeQuota(q) ==
    [allowed |-> TRUE, remaining |-> MaxDomains, resetTime |-> q.now + Window]
AllowNew(q) ==
    [allowed |-> TRUE, remaining |-> MaxDomains - Len(q.body.items), resetTime |-> q.now + Window]
RejectExistingUnlessCold(q, usage) ==
    IF q.cold
    THEN [allowed |-> TRUE, remaining |-> MaxDomains - Len(q.body.items),
          resetTime |-> q.now + Window]
    ELSE [allowed |-> FALSE, remaining |-> MaxDomains - usage.count,
          resetTime |-> usage.timestamp + Window]
RejectExistingNothingLeft(q, usage) ==
    [allowed |-> FALSE, remaining |-> 0, resetTime |-> q.now + Window]
RejectExistingNewWindow(q, usage) ==
    [allowed |-> FALSE, remaining |-> MaxDomains - usage.count, resetTime |-> q.now + Window]
RejectExisting(q, usage) ==
    [allowed |-> FALSE, remaining |-> MaxDomains - usage.count,
     resetTime |-> usage.timestamp + Window]
AllowExistingOwnSize(q, totalCount) ==
    [allowed |-> TRUE, remaining |-> MaxDomains - Len(q.body.items),
     resetTime |-> q.now + Window]
AllowExisting(q, totalCount) ==
    [allowed |-> TRUE, remaining |-> MaxDomains - totalCount, resetTime |-> q.now + Window]
FailClosed(q) ==
    [allowed |-> FALSE, remaining |-> 0, resetTime |-> q.now + Window]
FailOpen(q) ==
    [allowed |-> TRUE, remaining |-> MaxDomains - Len(q.body.items), resetTime |-> q.now + Window]

(***************************************************************************)
(* History kept for the properties (not read by any step of the program).  *)
(***************************************************************************)
ZeroTally == [domainsChecked |-> 0, blocked |-> 0, notBlocked |-> 0, errors |-> 0]

CountStatus(rs, S) == Cardinality({k \in 1..Len(rs) : rs[k].status \in S})

\* the tallies of a 200 response, read off the statuses of its results
TallyOf(rs) ==
    [domainsChecked |-> Len(rs),
     blocked |-> CountStatus(rs, {"Blocked"}),
     notBlocked |-> CountStatus(rs, {"Not Blocked"}),
     errors |-> Len(rs) - CountStatus(rs, {"Blocked", "Not Blocked"})]

AddTally(a, b) ==
    [domainsChecked |-> a.domainsChecked + b.domainsChecked, blocked |-> a.blocked + b.blocked,
     notBlocked |-> a.notBlocked + b.notBlocked, errors |-> a.errors + b.errors]

\* slot r moves to q2; a request that is answered 200 by this step is tallied
Commit(r, q2) ==
    /\ req' = [req EXCEPT ![r] = q2]
    /\ tallied' = IF q2.pc = "done" /\ q2.resp.status = 200
                  THEN AddTally(tallied, TallyOf(q2.resp.results)) ELSE tallied

\* checkRateLimit returned allowed = true for n domains of client ip
Grant(ip, n) == granted' = [granted EXCEPT ![ip] = @ + n]

(***************************************************************************)
(* Requests.                                                               *)
(***************************************************************************)
\* a POST /check arrives; the first await is the CREATE TABLE of initializeTables
Arrive(r, ip, body) ==
    /\ req[r].pc \in {"idle", "done"}
    /\ arrivals < MaxRequests
    /\ arrivals' = arrivals + 1
    /\ Commit(r, [InitializeDbClient(req[r]) EXCEPT
                      !.pc = "it_create_stats", !.site = "http",
                      !.route = "/check", !.ip = ip, !.body = body])
    /\ UNCHANGED <<store, now, storeUp, granted, windowFirst, succeeded>>

\* a GET of /stats/data or of a page arrives: the same init middleware runs first
ArriveGet(r, route) ==
    /\ req[r].pc \in {"idle", "done"}
    /\ arrivals < MaxRequests
    /\ arrivals' = arrivals + 1
    /\ Commit(r, [InitializeDbClient(req[r]) EXCEPT
                      !.pc = "it_create_stats", !.site = "http", !.route = route])
    /\ UNCHANGED <<store, now, storeUp, granted, windowFirst, succeeded>>

(***************************************************************************)
(* initializeTables (db.ts 36-86).                                         *)
(***************************************************************************)
\* CREATE TABLE IF NOT EXISTS stats
ItCreateStats(r) ==
    /\ req[r].pc = "it_create_stats"
    /\ IF storeUp
       THEN /\ tables' = tables \cup {"stats"}
            /\ Commit(r, [req[r] EXCEPT !.pc = "it_select"])
       ELSE /\ Commit(r, AfterInitializeTables(req[r], FALSE, now))
            /\ UNCHANGED tables
    /\ UNCHANGED <<stats, rate_limits, now, storeUp, arrivals, granted, windowFirst, succeeded>>

\* SELECT id FROM stats WHERE id = "global"; if (!statsResult.rows[0])
ItSelect(r) ==
    /\ req[r].pc = "it_select"
    /\ IF StoreOk("stats")
       THEN Commit(r, [req[r] EXCEPT !.pc = IF SelectStats(stats) = <<>>
                                             THEN "it_insert" ELSE "it_create_rl"])
       ELSE Commit(r, AfterInitializeTables(req[r], FALSE, now))
    /\ UNCHANGED <<store, now, storeUp, arrivals, granted, windowFirst, succeeded>>

\* INSERT INTO stats the default row
ItInsert(r) ==
    /\ req[r].pc = "it_insert"
    /\ LET ins == InsertStats(stats, DefaultStatsRow(now))
       IN IF StoreOk("stats") /\ ins.ok
          THEN /\ stats' = ins.rows
               /\ Commit(r, [req[r] EXCEPT !.pc = "it_create_rl"])
          ELSE /\ Commit(r, AfterInitializeTables(req[r], FALSE, now))
               /\ UNCHANGED stats
    /\ UNCHANGED <<tables, rate_limits, now, storeUp, arrivals, granted, windowFirst, succeeded>>

\* CREATE TABLE IF NOT EXISTS rate_limits, and the return
ItCreateRl(r) ==
    /\ req[r].pc = "it_create_rl"
    /\ IF storeUp
       THEN /\ tables' = tables \cup {"rate_limits"}
            /\ Commit(r, AfterInitializeTables(req[r], TRUE, now))
            /\ succeeded' = succeeded \cup {"initializeTables"}
       ELSE /\ Commit(r, AfterInitializeTables(req[r], FALSE, now))
            /\ UNCHANGED <<tables, succeeded>>
    /\ UNCHANGED <<stats, rate_limits, now, storeUp, arrivals, granted, windowFirst>>

(***************************************************************************)
(* getStats (db.ts 89-140).                                                *)
(***************************************************************************)
\* SELECT * FROM stats WHERE id = "global"; a row found is returned
GsSelect(r) ==
    /\ req[r].pc = "gs_select"
    /\ IF StoreOk("stats")
       THEN IF SelectStats(stats) = <<>>
            THEN /\ Commit(r, [req[r] EXCEPT !.pc = "gs_insert"])
                 /\ UNCHANGED succeeded
            ELSE /\ Commit(r, AfterGetStats(req[r], TRUE, SelectStats(stats)))
                 /\ succeeded' = succeeded \cup {"getStats"}
       ELSE /\ Commit(r, AfterGetStats(req[r], FALSE, <<>>))
            /\ UNCHANGED succeeded
    /\ UNCHANGED <<store, now, storeUp, arrivals, granted, windowFirst>>

\* INSERT INTO stats the default row; return defaultStats
GsInsert(r) ==
    /\ req[r].pc = "gs_insert"
    /\ LET ins == InsertStats(stats, DefaultStatsRow(now))
       IN IF StoreOk("stats") /\ ins.ok
          THEN /\ stats' = ins.rows
               /\ Commit(r, AfterGetStats(req[r], TRUE, <<DefaultStatsRow(now)>>))
               /\ succeeded' = succeeded \cup {"getStats"}
          ELSE /\ Commit(r, AfterGetStats(req[r], FALSE, <<>>))
               /\ UNCHANGED <<stats, succeeded>>
    /\ UNCHANGED <<tables, rate_limits, now, storeUp, arrivals, granted, windowFirst>>

(***************************************************************************)
(* incrementStats (db.ts 142-207).                                         *)
(***************************************************************************)
\* SELECT id FROM stats WHERE id = "global"; if (!result.rows[0])
IsSelect(r) ==
    /\ req[r].pc = "is_select"
    /\ IF StoreOk("stats")
       THEN Commit(r, [req[r] EXCEPT !.pc = IF SelectStats(stats) = <<>>
                                             THEN "is_insert" ELSE "is_update"])
       ELSE Commit(r, AfterIncrementStats(req[r], FALSE, now))
    /\ UNCHANGED <<store, now, storeUp, arrivals, granted, windowFirst, succeeded>>

\* INSERT INTO stats the default row
IsInsert(r) ==
    /\ req[r].pc = "is_insert"
    /\ LET ins == InsertStats(stats, DefaultStatsRow(now))
       IN IF StoreOk("stats") /\ ins.ok
          THEN /\ stats' = ins.rows
               /\ Commit(r, [req[r] EXCEPT !.pc = "is_update"])
          ELSE /\ Commit(r, AfterIncrementStats(req[r], FALSE, now))
               /\ UNCHANGED stats
    /\ UNCHANGED <<tables, rate_limits, now, storeUp, arrivals, granted, windowFirst, succeeded>>

\* UPDATE stats SET ... WHERE id = "global", and the return
IsUpdate(r) ==
    /\ req[r].pc = "is_update"
    /\ IF StoreOk("stats")
       THEN /\ stats' = UpdateStats(stats, req[r].delta)
            /\ Commit(r, AfterIncrementStats(req[r], TRUE, now))
            /\ succeeded' = succeeded \cup {"incrementStats"}
       ELSE /\ Commit(r, AfterIncrementStats(req[r], FALSE, now))
            /\ UNCHANGED <<stats, succeeded>>
    /\ UNCHANGED <<tables, rate_limits, now, storeUp, arrivals, granted, windowFirst>>

(***************************************************************************)
(* checkRateLimit (db.ts 210-288).                                         *)
(***************************************************************************)
\* the catch: allow the request
RlCatch(r) ==
    /\ Commit(r, AfterCheckRateLimit([req[r] EXCEPT !.threw = TRUE], FailOpen(req[r]), now))
    /\ Grant(req[r].ip, Len(req[r].body.items))
    /\ UNCHANGED <<rate_limits, windowFirst>>

\* DELETE FROM rate_limits WHERE timestamp < windowStart
RlDelete(r) ==
    /\ req[r].pc = "rl_delete"
    /\ IF StoreOk("rate_limits")
       THEN LET kept == PurgeRateLimits(rate_limits, req[r].now - Window)
                purged == {row.ip : row \in rate_limits \ kept}
            IN /\ rate_limits' = kept
               /\ granted' = [c \in Clients |-> IF c \in purged THEN 0 ELSE granted[c]]
               /\ windowFirst' = [c \in Clients |-> IF c \in purged THEN -1 ELSE windowFirst[c]]
               /\ Commit(r, [req[r] EXCEPT !.pc = "rl_select",
                                            !.stale = /\ windowFirst[req[r].ip] >= 0
                                                      /\ req[r].now - windowFirst[req[r].ip] > Window])
       ELSE RlCatch(r)
    /\ UNCHANGED <<tables, stats, now, storeUp, arrivals, succeeded>>

RlSelectStampRejected(r) ==
    /\ req[r].pc = "rl_select"
    /\ LET q == req[r]
           rows == SelectRateLimit(rate_limits, q.ip)
           domainCount == Len(q.body.items)
       IN IF rows = {}
          THEN /\ IF domainCount > MaxDomains
                  THEN Commit(r, AfterCheckRateLimit(q, RejectNew(q), now))
                  ELSE Commit(r, [q EXCEPT !.pc = "rl_insert"])
               /\ UNCHANGED rate_limits
          ELSE LET usage == CHOOSE row \in rows : TRUE
               IN IF usage.count + domainCount > MaxDomains
                  THEN /\ Commit(r, AfterCheckRateLimit(q, RejectExisting(q, usage), now))
                       /\ rate_limits' = UpdateRateLimit(rate_limits, q.ip, usage.count, q.now)
                  ELSE /\ Commit(r, [q EXCEPT !.pc = "rl_update", !.usage = rows])
                       /\ UNCHANGED rate_limits
    /\ UNCHANGED <<tables, stats, now, storeUp, arrivals, granted, windowFirst, succeeded>>

\* SELECT count, timestamp FROM rate_limits WHERE ip = ?, and the two rejections
RlSelect(r) ==
    /\ req[r].pc = "rl_select"
    /\ IF StoreOk("rate_limits")
       THEN LET q == req[r]
                rows == SelectRateLimit(rate_limits, q.ip)
                domainCount == Len(q.body.items)
            IN /\ IF rows = {}
                  THEN IF domainCount > MaxDomains
                       THEN Commit(r, AfterCheckRateLimit(q, RejectNew(q), now))
                       ELSE Commit(r, [q EXCEPT !.pc = "rl_insert"])
                  ELSE LET usage == CHOOSE row \in rows : TRUE
                       IN IF usage.count + domainCount > MaxDomains
                          THEN Commit(r, AfterCheckRateLimit(q, RejectExisting(q, usage), now))
                          ELSE Commit(r, [q EXCEPT !.pc = "rl_update", !.usage = rows])
               /\ UNCHANGED <<rate_limits, granted, windowFirst>>
       ELSE RlCatch(r)
    /\ UNCHANGED <<tables, stats, now, storeUp, arrivals, succeeded>>

\* INSERT INTO rate_limits (ip, count, timestamp) VALUES (ip, domainCount, now)
RlInsert(r) ==
    /\ req[r].pc = "rl_insert"
    /\ IF StoreOk("rate_limits") /\ RateLimitKeyFree(rate_limits, req[r].ip)
       THEN LET q == req[r]
                domainCount == Len(q.body.items)
            IN /\ rate_limits' = InsertRateLimit(rate_limits, q.ip, domainCount, q.now)
               /\ granted' = [granted EXCEPT ![q.ip] = domainCount]
               /\ windowFirst' = [windowFirst EXCEPT ![q.ip] = q.now]
               /\ Commit(r, AfterCheckRateLimit(q, AllowNew(q), now))
       ELSE RlCatch(r)
    /\ UNCHANGED <<tables, stats, now, storeUp, arrivals, succeeded>>

\* UPDATE rate_limits SET count = totalCount, timestamp = now WHERE ip = ?
RlUpdate(r) ==
    /\ req[r].pc = "rl_update"
    /\ IF StoreOk("rate_limits")
       THEN LET q == req[r]
                usage == CHOOSE row \in q.usage : TRUE
                totalCount == usage.count + Len(q.body.items)
            IN /\ rate_limits' = UpdateRateLimit(rate_limits, q.ip, totalCount, q.now)
               /\ Grant(q.ip, Len(q.body.items))
               /\ Commit(r, AfterCheckRateLimit(q, AllowExisting(q, totalCount), now))
               /\ UNCHANGED windowFirst
       ELSE RlCatch(r)
    /\ UNCHANGED <<tables, stats, now, storeUp, arrivals, succeeded>>

(***************************************************************************)
(* The batch loop (index.ts 125-158).                                      *)
(***************************************************************************)
\* domains.slice(i, i + batchSize) and checkBatch(batch) up to its `await fetch`
\* (index.ts 133-135, 171-179): one GET for the batch is issued
SendBatch(q) ==
    [q EXCEPT !.sent = Append(@, Slice(q.body.items, q.i, q.i + BatchSize)),
              !.inflight = @ + 1]

ReceiveBatchRetry(q, out, t) ==
    LET batch == q.sent[Len(q.sent)]
        batchResults == CheckBatch(batch, out)
        q1 == [TallyResults(q, batchResults) EXCEPT
                  !.results = q.results \o batchResults,
                  !.apiLog = Append(q.apiLog, out),
                  !.inflight = q.inflight - 1,
                  !.pc = "fetch",
                  !.i = q.i + BatchSize]
    IN IF out.kind # "ok" THEN [q EXCEPT !.inflight = q.inflight - 1, !.pc = "fetch"]
       ELSE IF q1.i < Len(q1.body.items) THEN q1 ELSE FinalStats(q1, t)

\* the call of the batch sent last is over with outcome out: checkBatch returns its
\* results, the tally, results.push(...batchResults), i += batchSize and the loop
\* condition (index.ts 133-149, 181-226)
ReceiveBatch(q, out, t) ==
    LET batch == q.sent[Len(q.sent)]
        batchResults == CheckBatch(batch, out)
        q1 == [TallyResults(q, batchResults) EXCEPT
                  !.results = q.results \o batchResults,
                  !.apiLog = Append(q.apiLog, out),
                  !.inflight = q.inflight - 1,
                  !.pc = "fetch",
                  !.i = q.i + BatchSize]
    IN IF q1.i < Len(q1.body.items) THEN q1 ELSE FinalStats(q1, t)

FetchRefundFailed(r, api) ==
    /\ req[r].pc = "fetch"
    /\ LET q == SendBatch(req[r])
           batch == q.sent[Len(q.sent)]
       IN \E out \in Outcomes(api, batch) :
             /\ Commit(r, ReceiveBatch(q, out, now))
             /\ rate_limits' =
                   IF out.kind = "ok" THEN rate_limits
                   ELSE {IF row.ip = q.ip THEN [row EXCEPT !.count = @ - Len(batch)] ELSE row :
                            row \in rate_limits}
    /\ UNCHANGED <<tables, stats, now, storeUp, arrivals, granted, windowFirst, succeeded>>

\* one iteration, the external call taken as one step: await checkBatch(batch), tally,
\* results.push(...batchResults); api names what the external API may answer
Fetch(r, api) ==
    /\ req[r].pc = "fetch"
    /\ LET q == SendBatch(req[r])
       IN \E out \in Outcomes(api, q.sent[Len(q.sent)]) :
             Commit(r, ReceiveBatch(q, out, now))
    /\ UNCHANGED <<store, now, storeUp, arrivals, granted, windowFirst, succeeded>>

IssueBatchesTogether(r) ==
    /\ req[r].pc = "fetch"
    /\ LET q == SendBatch(req[r])
       IN Commit(r, IF q.i + BatchSize < Len(q.body.items)
                    THEN [q EXCEPT !.i = @ + BatchSize]
                    ELSE [q EXCEPT !.pc = "fetching"])
    /\ UNCHANGED <<store, now, storeUp, arrivals, granted, windowFirst, succeeded>>

\* one iteration in two steps.  First the call is issued and the handler waits at
\* `await checkBatch(batch)` ...
IssueBatch(r) ==
    /\ req[r].pc = "fetch"
    /\ Commit(r, [SendBatch(req[r]) EXCEPT !.pc = "fetching"])
    /\ UNCHANGED <<store, now, storeUp, arrivals, granted, windowFirst, succeeded>>

\* ... then the call completes, or fails, and the iteration ends
CompleteBatch(r, api) ==
    /\ req[r].pc = "fetching"
    /\ \E out \in Outcomes(api, req[r].sent[Len(req[r].sent)]) :
          Commit(r, ReceiveBatch(req[r], out, now))
    /\ UNCHANGED <<store, now, storeUp, arrivals, granted, windowFirst, succeeded>>

(***************************************************************************)
(* The environment.                                                        *)
(***************************************************************************)
Tick ==
    /\ now < MaxTime
    /\ now' = now + 1
    /\ UNCHANGED <<store, storeUp, req, arrivals, hist>>

\* the database becomes unreachable, or reachable again
Outage ==
    /\ storeUp' = ~storeUp
    /\ UNCHANGED <<store, now, req, arrivals, hist>>

(***************************************************************************)
(* The store adapter called on its own: any caller, any order.             *)
(***************************************************************************)
CallInitializeTables(r) ==
    /\ req[r].pc = "idle"
    /\ arrivals < MaxRequests
    /\ arrivals' = arrivals + 1
    /\ Commit(r, [InitializeDbClient(req[r]) EXCEPT
                      !.pc = "it_create_stats", !.site = "direct", !.fn = "initializeTables"])
    /\ UNCHANGED <<store, now, storeUp, granted, windowFirst, succeeded>>

CallGetStats(r) ==
    /\ req[r].pc = "idle"
    /\ arrivals < MaxRequests
    /\ arrivals' = arrivals + 1
    /\ Commit(r, [InitializeDbClient(req[r]) EXCEPT
                      !.pc = "gs_select", !.site = "direct", !.fn = "getStats"])
    /\ UNCHANGED <<store, now, storeUp, granted, windowFirst, succeeded>>

\* checkRateLimit(env, ip, domainCount, maxDomains, windowMinutes) up to its first
\* await (db.ts 210-224): now is read once, here
CallCheckRateLimit(r, ip, domainCount) ==
    /\ req[r].pc = "idle"
    /\ arrivals < MaxRequests
    /\ arrivals' = arrivals + 1
    /\ Commit(r, [InitializeDbClient(req[r]) EXCEPT
                      !.pc = "rl_delete", !.site = "direct", !.fn = "checkRateLimit",
                      !.ip = ip, !.now = now,
                      !.body = [isArray |-> TRUE, falsy |-> FALSE,
                                items |-> [k \in 1..domainCount |-> "a.com"]]])
    /\ UNCHANGED <<store, now, storeUp, granted, windowFirst, succeeded>>

\* the caller of a checkRateLimit that has returned calls it again for its client, as
\* often as it likes
KeepSending(r, ip, domainCount) ==
    /\ req[r].pc = "idle"
    /\ Commit(r, [InitializeDbClient(req[r]) EXCEPT
                      !.pc = "rl_delete", !.site = "direct", !.fn = "checkRateLimit",
                      !.ip = ip, !.now = now,
                      !.body = [isArray |-> TRUE, falsy |-> FALSE,
                                items |-> [k \in 1..domainCount |-> "a.com"]],
                      !.refused = /\ req[r].fn = "checkRateLimit" /\ req[r].ret = "ok"
                                  /\ req[r].ip = ip /\ ~req[r].rateLimit.allowed])
    /\ UNCHANGED <<store, now, storeUp, arrivals, granted, windowFirst, succeeded>>

\* a call whose deltas are all absent or zero returns without awaiting anything
CallIncrementStats(r, d) ==
    /\ req[r].pc = "idle"
    /\ arrivals < MaxRequests
    /\ arrivals' = arrivals + 1
    /\ LET q2 == EnterIncrementStats([InitializeDbClient(req[r]) EXCEPT !.fn = "incrementStats"],
                                     "direct", d, now)
       IN /\ Commit(r, q2)
          /\ succeeded' = IF q2.pc = "idle" THEN succeeded \cup {"incrementStats(noop)"}
                          ELSE succeeded
    /\ UNCHANGED <<store, now, storeUp, granted, windowFirst>>

(***************************************************************************)
(* Specifications.                                                         *)
(***************************************************************************)
\* a database that has never been used, no request in flight
Init ==
    /\ tables = {}
    /\ stats = <<>>
    /\ rate_limits = {}
    /\ now = 0
    /\ storeUp = TRUE
    /\ req = [r \in Slots |-> IdleReq]
    /\ arrivals = 0
    /\ granted = [c \in Clients |-> 0]
    /\ windowFirst = [c \in Clients |-> -1]
    /\ tallied = ZeroTally
    /\ succeeded = {}

SeqsUpTo(S, n) == UNION {[1..k -> S] : k \in 0..n}

\* request bodies: domains is no array (falsy or not), or an array of
\* 0 .. MaxPerRequest + 1 names
Bodies ==
    {[isArray |-> FALSE, falsy |-> f, items |-> <<>>] : f \in BOOLEAN}
    \cup {[isArray |-> TRUE, falsy |-> FALSE, items |-> s] :
             s \in SeqsUpTo(DomainNames, MaxPerRequest + 1)}

\* domains is a string, or an array of one domain name: the length is all that differs
PlainBodies ==
    {[isArray |-> FALSE, falsy |-> FALSE, items |-> <<>>]}
    \cup {[isArray |-> TRUE, falsy |-> FALSE, items |-> s] :
             s \in SeqsUpTo({"a.com"}, MaxPerRequest + 1)}

\* the bodies among them that pass the handler's validation
ListBodies == {b \in PlainBodies : b.isArray /\ Len(b.items) <= MaxPerRequest}

\* stats arguments of a direct incrementStats
Deltas ==
    {ZeroDelta, [ZeroDelta EXCEPT !.requests = 1],
     [requests |-> 1, domainsChecked |-> 2, blocked |-> 1, notBlocked |-> 0, errors |-> 1]}

\* the awaits of one POST /check.  The INSERT of incrementStats is left out: the
\* request's own initializeTables has seen or seeded the row (NeverSeedsInPipeline).
PipelineStep(r, api) ==
    \/ ItCreateStats(r) \/ ItSelect(r) \/ ItInsert(r) \/ ItCreateRl(r)
    \/ IsSelect(r) \/ IsUpdate(r)
    \/ RlDelete(r) \/ RlSelect(r) \/ RlInsert(r) \/ RlUpdate(r)
    \/ Fetch(r, api)

NeverSeedsInPipeline == \A r \in Slots : req[r].pc \notin {"is_insert", "gs_insert"}

\* one client, one request at a time, the store reachable
NextSeq ==
    \/ \E body \in PlainBodies : Arrive(1, "ip1", body)
    \/ PipelineStep(1, "plain")
    \/ Tick

SpecSeq == Init /\ [][NextSeq]_vars

\* two requests of one client, one after the other at one instant, with any body,
\* the external API answering anything
NextBatch ==
    \/ \E body \in Bodies : arrivals < 2 /\ Arrive(1, "ip1", body)
    \/ PipelineStep(1, "any")

SpecBatch == Init /\ [][NextBatch]_vars

\* requests of one client that pass validation, in flight together at one instant,
\* the store reachable
NextConc ==
    \/ \E r \in Slots, body \in ListBodies : Arrive(r, "ip1", body)
    \/ \E r \in Slots : PipelineStep(r, "plain")

SpecConc == Init /\ [][NextConc]_vars

\* one client, one request at a time, the store failing at any await
Next ==
    \/ \E body \in PlainBodies : Arrive(1, "ip1", body)
    \/ PipelineStep(1, "open")
    \/ Tick
    \/ Outage

Spec == Init /\ [][Next]_vars

\* two requests of one client, one after the other, the store failing at any await
NextFail ==
    \/ \E body \in PlainBodies : arrivals < 2 /\ Arrive(1, "ip1", body)
    \/ PipelineStep(1, "open")
    \/ Tick
    \/ Outage

SpecFail == Init /\ [][NextFail]_vars

\* requests of one client, one at a time, each served by either isolate, the store
\* reachable
NextIso ==
    \/ \E r \in Slots, body \in PlainBodies :
          (\A other \in Slots : req[other].pc \in {"idle", "done"}) /\ Arrive(r, "ip1", body)
    \/ \E r \in Slots : PipelineStep(r, "open")
    \/ Tick

SpecIso == Init /\ [][NextIso]_vars

\* two requests of one client for any route, one after the other at one instant, the
\* store failing at any await.  The INSERT of getStats is left out as that of
\* incrementStats is (NeverSeedsInPipeline).
NextRoutes ==
    \/ \E body \in PlainBodies : arrivals < 2 /\ Arrive(1, "ip1", body)
    \/ \E route \in Routes \ {"/check"} : arrivals < 2 /\ ArriveGet(1, route)
    \/ PipelineStep(1, "open")
    \/ GsSelect(1)
    \/ Outage

SpecRoutes == Init /\ [][NextRoutes]_vars

\* check requests served by isolate 1 and GET /stats/data served by isolate 2, in
\* flight together at one instant, the store reachable
NextStats ==
    \/ \E body \in ListBodies : Arrive(1, "ip1", body)
    \/ ArriveGet(2, "/stats/data")
    \/ \E r \in Slots : PipelineStep(r, "plain")
    \/ GsSelect(2)

SpecStats == Init /\ [][NextStats]_vars

\* the database after a successful initializeTables at time 0
InitRl ==
    /\ tables = {"stats", "rate_limits"}
    /\ stats = <<DefaultStatsRow(0)>>
    /\ rate_limits = {}
    /\ now = 0
    /\ storeUp = TRUE
    /\ req = [r \in Slots |-> IdleReq]
    /\ arrivals = 0
    /\ granted = [c \in Clients |-> 0]
    /\ windowFirst = [c \in Clients |-> -1]
    /\ tallied = ZeroTally
    /\ succeeded = {"initializeTables"}

\* domainCount of a direct call: nothing, little, the whole quota, more than that
CallSizes == {0, 1, 2, MaxDomains, MaxDomains + 1}

\* checkRateLimit called directly, one call at a time, for either client, the store
\* reachable
NextRl ==
    \/ \E ip \in Clients, n \in CallSizes : CallCheckRateLimit(1, ip, n)
    \/ RlDelete(1) \/ RlSelect(1) \/ RlInsert(1) \/ RlUpdate(1)
    \/ Tick

SpecRl == InitRl /\ [][NextRl]_vars

\* the awaits of one checkRateLimit
LimiterStep(r) == RlDelete(r) \/ RlSelect(r) \/ RlInsert(r) \/ RlUpdate(r)

\* one client that keeps calling checkRateLimit for no more than maxDomains domains,
\* one call at a time, the store reachable
NextLive ==
    \/ \E n \in 0..MaxDomains : KeepSending(1, "ip1", n)
    \/ LimiterStep(1)
    \/ Tick

\* the clock advances (up to MaxTime), every awaited statement of the reachable store
\* completes, and the client does keep sending
SpecLive ==
    /\ InitRl
    /\ [][NextLive]_vars
    /\ WF_vars(Tick)
    /\ WF_vars(LimiterStep(1))
    /\ WF_vars(\E n \in 0..MaxDomains : KeepSending(1, "ip1", n))

\* the awaits of one POST /check before and after the batch loop
StoreStep(r) ==
    \/ ItCreateStats(r) \/ ItSelect(r) \/ ItInsert(r) \/ ItCreateRl(r)
    \/ IsSelect(r) \/ IsUpdate(r)
    \/ RlDelete(r) \/ RlSelect(r) \/ RlInsert(r) \/ RlUpdate(r)

\* two requests of one client, one after the other at one instant, with any body, each
\* external call issued in one step and completed (or failed) in another
NextLoop ==
    \/ \E body \in Bodies : arrivals < 2 /\ Arrive(1, "ip1", body)
    \/ StoreStep(1)
    \/ IssueBatch(1)
    \/ CompleteBatch(1, "plain")

SpecLoop == Init /\ [][NextLoop]_vars

\* the domain counts of the overlapping calls: a small one, a whole quota, one
\* beyond it
ConcSizes == {1, MaxDomains, MaxDomains + 1}

\* two requests of one client that pass validation, one after the other, the external
\* API failing or answering, the store failing at any await
NextQuota ==
    \/ \E body \in ListBodies : arrivals < 2 /\ Arrive(1, "ip1", body)
    \/ PipelineStep(1, "plain")
    \/ Tick
    \/ Outage

SpecQuota == Init /\ [][NextQuota]_vars

\* checkRateLimit called directly, calls in flight together, the store reachable:
\* one caller serves either client, the other the first client, so that calls for
\* one client and calls for two clients both overlap
NextRlConc ==
    \/ \E ip \in Clients, n \in ConcSizes : CallCheckRateLimit(1, ip, n)
    \/ \E n \in ConcSizes : CallCheckRateLimit(2, "ip1", n)
    \/ \E r \in Slots : RlDelete(r) \/ RlSelect(r) \/ RlInsert(r) \/ RlUpdate(r)
    \/ Tick

SpecRlConc == InitRl /\ [][NextRlConc]_vars

\* the store adapter's functions called directly, in flight together
NextDb ==
    \/ \E r \in Slots : \/ CallInitializeTables(r)
                        \/ CallGetStats(r)
                        \/ \E d \in Deltas : CallIncrementStats(r, d)
                        \/ ItCreateStats(r) \/ ItSelect(r) \/ ItInsert(r) \/ ItCreateRl(r)
                        \/ GsSelect(r) \/ GsInsert(r)
                        \/ IsSelect(r) \/ IsInsert(r) \/ IsUpdate(r)
    \/ Tick
    \/ Outage

SpecDb == Init /\ [][NextDb]_vars

(***************************************************************************)
(* Properties.                                                             *)
(***************************************************************************)
Quiet(r) == req[r].pc \in {"idle", "done"}
Answered(r, status) == req[r].pc = "done" /\ req[r].resp.status = status
DomainCount(r) == Len(req[r].body.items)
\* the request holds its results locally (between the rate-limit check and the response)
InLoop(r) ==
    req[r].pc \in {"fetch", "fetching", "is_select", "is_update"} /\ req[r].site # "statsmw"
TotalRequests == IF SelectStats(stats) = <<>> THEN 0 ELSE SelectStats(stats)[1].total_requests

\* C1 (SpecSeq): one client, one request at a time, store reachable: the domain counts
\* of the requests checkRateLimit allowed since the client's entry was created, up to
\* its purge, never add up to more than maxDomains.
C1_WindowSumBounded == \A c \in Clients : granted[c] <= MaxDomains

\* the client has used its whole quota in several requests and the next one is refused
C1_Witness ==
    /\ granted["ip1"] = MaxDomains
    /\ \E row \in rate_limits : row.ip = "ip1" /\ row.count = MaxDomains
    /\ Answered(1, 429)

\* C2 (SpecConc), as claimed: with requests of one client in flight together the total
\* allowed within one window stays within maxDomains; in particular two requests
\* answered 200 at the same instant do not add up to more than maxDomains.
C2_ConcurrentWindowSumBounded ==
    /\ \A c \in Clients : granted[c] <= MaxDomains
    /\ (Answered(1, 200) /\ Answered(2, 200) /\ req[1].ip = req[2].ip)
          => DomainCount(1) + DomainCount(2) <= MaxDomains

\* C3 (SpecBatch): the results returned for a list of n domains are n results, the
\* k-th carrying the k-th domain exactly as submitted.
C3_ResultsMirrorDomains ==
    \A r \in Slots :
        Answered(r, 200) =>
            /\ Len(req[r].resp.results) = DomainCount(r)
            /\ \A k \in 1..DomainCount(r) :
                   req[r].resp.results[k].originalUrl = req[r].body.items[k]

\* a list of more than one batch with a repeated domain, one batch failed, one not
C3_Witness ==
    /\ Answered(1, 200)
    /\ DomainCount(1) > BatchSize
    /\ req[1].body.items[1] = req[1].body.items[DomainCount(1)]
    /\ req[1].resp.results[1].status = "Error: API request failed"
    /\ req[1].resp.results[DomainCount(1)].status = "Blocked"

\* C4 (SpecConc): whatever the interleaving, the four outcome counters of the stats row
\* are the sums of the tallies of the requests answered 200 so far.
C4_NoLostStatsUpdates ==
    LET rows == SelectStats(stats)
    IN IF rows = <<>> THEN tallied = ZeroTally
       ELSE /\ rows[1].total_domains_checked = tallied.domainsChecked
            /\ rows[1].blocked_domains = tallied.blocked
            /\ rows[1].not_blocked_domains = tallied.notBlocked
            /\ rows[1].error_domains = tallied.errors

\* two requests are about to apply their outcome deltas, a third has already done so
C4_Witness ==
    /\ tallied.domainsChecked > 0
    /\ \A r \in Slots : /\ req[r].pc = "is_update" /\ req[r].site = "final"
                        /\ req[r].delta.domainsChecked > 0
    /\ req[1].delta.blocked > 0
    /\ req[2].delta.errors > 0

\* C5 (SpecSeq), as claimed: once every request issued has been answered,
\* total_requests is the number of requests issued.
C5_EachRequestCountedOnce == Quiet(1) => TotalRequests = arrivals

\* C6 (SpecFail): a checkRateLimit that returned from its catch returned allowed = true,
\* remaining = maxDomains - requestedDomainCount, resetTime = now + window, and the
\* request went on to the batch loop: it is never answered 429.
C6_FailOpen ==
    \A r \in Slots :
        req[r].threw =>
            /\ ~Answered(r, 429)
            /\ Answered(r, 200) => req[r].resp.remaining = MaxDomains - DomainCount(r)
            /\ ~Quiet(r) =>
                  /\ InLoop(r)
                  /\ req[r].rateLimit = [allowed |-> TRUE,
                                         remaining |-> MaxDomains - DomainCount(r),
                                         resetTime |-> req[r].now + Window]

\* a store failure let through a request that the stored count would have refused
C6_Witness ==
    /\ req[1].threw
    /\ Answered(1, 200)
    /\ \E row \in rate_limits : row.ip = req[1].ip /\ row.count + DomainCount(1) > MaxDomains

\* C7 (SpecSeq), as claimed: a request that arrives more than the window after the
\* request that created the client's entry is treated as fresh: it is allowed with
\* remaining = maxDomains - its size, and the entry then holds its size and its time.
C7_FreshAfterWindow ==
    \A r \in Slots :
        req[r].stale =>
            /\ req[r].pc = "done" => /\ req[r].resp.status \in {200, 500}
                                     /\ req[r].resp.status = 200 =>
                                            req[r].resp.remaining = MaxDomains - DomainCount(r)
            /\ InLoop(r) => \E row \in rate_limits :
                                /\ row.ip = req[r].ip
                                /\ row.count = DomainCount(r)
                                /\ row.timestamp = req[r].now

ItPcs == {"it_create_stats", "it_select", "it_insert", "it_create_rl"}

\* C8 (SpecDb): once initializeTables has succeeded, no step of a later (or still
\* running) initializeTables changes the store: the tables, the stats row with its
\* counters, last_reset and unique_users, and the rate-limit rows stay as they were.
C8_InitializeTablesIdempotent ==
    [][\A r \in Slots :
          ("initializeTables" \in succeeded /\ req[r].pc \in ItPcs /\ req'[r] # req[r])
              => store' = store]_vars

\* initializeTables has returned normally to both callers over a row with counts
C8_Witness ==
    /\ \A r \in Slots : req[r].fn = "initializeTables" /\ req[r].ret = "ok" /\ req[r].pc = "idle"
    /\ TotalRequests > 0

\* C9 (SpecDb), as claimed: after any successful initializeTables, getStats or
\* incrementStats there is exactly one stats row.
C9_OneRowAfterAnySuccess == succeeded # {} => Len(stats) = 1

\* C9 (SpecDb), amended: after a successful initializeTables or getStats, or a
\* successful incrementStats that was given a non-zero delta, there is exactly one
\* stats row, and its id is "global".
C9_OneRowAfterSeeding ==
    succeeded \ {"incrementStats(noop)"} # {} => Len(stats) = 1 /\ stats[1].id = "global"

\* the row was seeded and counted on while another caller, which had found no row,
\* is about to INSERT a second one
C9_Witness ==
    /\ {"initializeTables", "incrementStats"} \subseteq succeeded
    /\ Len(stats) = 1 /\ TotalRequests > 0
    /\ storeUp /\ \E r \in Slots : req[r].pc \in {"gs_insert", "is_insert"}

\* C10 (SpecBatch): the domains of a batch whose external call failed all get
\* "Error: API request failed", blocked = false, error = true; the domains of every
\* other batch get what their own call's response says.
C10_BatchFailureIsLocal ==
    \A r \in Slots :
        InLoop(r) =>
            \A b \in 1..Len(req[r].apiLog) :
                \A k \in ((b - 1) * BatchSize + 1)..Min(b * BatchSize, DomainCount(r)) :
                    LET d == req[r].body.items[k]
                        out == req[r].apiLog[b]
                        x == req[r].results[k]
                    IN IF out.kind # "ok"
                       THEN x = [originalUrl |-> d, status |-> "Error: API request failed",
                                 blocked |-> FALSE, error |-> TRUE]
                       ELSE x.status = CASE out.data[d] = "blocked" -> "Blocked"
                                         [] out.data[d] = "open" -> "Not Blocked"
                                         [] OTHER -> "Error: Invalid response"

\* the first batch got a non-2xx answer, the second was answered
C10_Witness ==
    /\ InLoop(1)
    /\ Len(req[1].apiLog) = 2
    /\ req[1].apiLog[1].kind = "status"
    /\ req[1].apiLog[2].kind = "ok"
    /\ req[1].results[Len(req[1].results)].status = "Blocked"

\* C11 (SpecBatch): in a batch whose external call succeeded each domain gets the
\* result that its own entry of the response dictates, whatever the entries of the
\* other domains are: no entry, or an entry that is no object, gives
\* "Error: Invalid response" with error = true; an entry whose blocked flag is true
\* gives "Blocked", one whose flag is false "Not Blocked", both with error = false.
C11_PerDomainResult ==
    \A r \in Slots :
        InLoop(r) =>
            \A b \in 1..Len(req[r].apiLog) :
                req[r].apiLog[b].kind = "ok" =>
                    \A k \in ((b - 1) * BatchSize + 1)..Min(b * BatchSize, DomainCount(r)) :
                        LET d == req[r].body.items[k]
                            entry == req[r].apiLog[b].data[d]
                            x == req[r].results[k]
                        IN /\ x.originalUrl = d
                           /\ entry \in {"absent", "scalar"} =>
                                  x.status = "Error: Invalid response" /\ x.error /\ ~x.blocked
                           /\ entry = "blocked" => x.status = "Blocked" /\ ~x.error /\ x.blocked
                           /\ entry = "open" => x.status = "Not Blocked" /\ ~x.error /\ ~x.blocked

\* one answered batch of two domains: the entry of the first is no object, the second
\* is reported blocked
C11_Witness ==
    /\ InLoop(1)
    /\ Len(req[1].apiLog) = 1
    /\ req[1].apiLog[1].kind = "ok"
    /\ Len(req[1].results) = 2
    /\ req[1].apiLog[1].data[req[1].body.items[1]] = "scalar"
    /\ req[1].results[1].status = "Error: Invalid response"
    /\ req[1].results[2].status = "Blocked"

RlPcs == {"rl_delete", "rl_select", "rl_insert", "rl_update"}

\* C12 (SpecBatch), as claimed: a request whose domains is the empty array never
\* reaches the rate limiter and is answered 400.
C12_EmptyListRejected ==
    \A r \in Slots :
        (req[r].pc # "idle" /\ req[r].body.isArray /\ DomainCount(r) = 0) =>
            /\ req[r].pc \notin RlPcs
            /\ req[r].pc = "done" => req[r].resp.status = 400

\* C13 (SpecBatch), as claimed: a request whose domains is no array, or is longer
\* than the per-request maximum, is answered 400; a list of 1 .. maximum domains is
\* not answered 400.
C13_ValidationRejects ==
    \A r \in Slots :
        req[r].pc = "done" =>
            /\ (~req[r].body.isArray \/ DomainCount(r) > MaxPerRequest)
                   => req[r].resp.status = 400
            /\ (req[r].body.isArray /\ DomainCount(r) \in 1..MaxPerRequest)
                   => req[r].resp.status # 400

\* the four outcome counters and the request counter of the stats row (0 while unseeded)
OutcomeCounters ==
    IF SelectStats(stats) = <<>> THEN ZeroTally
    ELSE [domainsChecked |-> SelectStats(stats)[1].total_domains_checked,
          blocked |-> SelectStats(stats)[1].blocked_domains,
          notBlocked |-> SelectStats(stats)[1].not_blocked_domains,
          errors |-> SelectStats(stats)[1].error_domains]

\* the handler's validation rejects the body (index.ts 105-112)
RejectedBody(r) ==
    \/ ~req[r].body.isArray /\ ~req[r].body.falsy
    \/ DomainCount(r) > MaxPerRequest

C15_RejectionChecksNothing ==
    [][\A r \in Slots :
          /\ (req[r].pc # "done" /\ req'[r].pc = "done" /\ req'[r].resp.status = 429) =>
                 /\ req[r].pc = "rl_select"
                 /\ req[r].apiLog = <<>> /\ req[r].results = <<>>
                 /\ store' = store
                 /\ LET rows == SelectRateLimit(rate_limits, req[r].ip)
                    IN IF rows = {}
                       THEN /\ req'[r].resp.remaining = MaxDomains
                            /\ req'[r].resp.resetTime = req[r].now + Window
                       ELSE \E row \in rows :
                               /\ req'[r].resp.remaining = MaxDomains - row.count
                               /\ req'[r].resp.resetTime = row.timestamp + Window
          /\ (~Quiet(r) /\ ~InLoop(r) /\ req'[r] # req[r]) =>
                 OutcomeCounters' = OutcomeCounters]_vars

\* a request was refused on an entry written at an earlier instant, after domains of
\* earlier requests had been checked and counted
C15_Witness ==
    /\ Answered(1, 429)
    /\ tallied.domainsChecked > 0
    /\ OutcomeCounters = tallied
    /\ \E row \in rate_limits :
          /\ row.ip = req[1].ip
          /\ row.timestamp < now
          /\ req[1].resp.remaining = MaxDomains - row.count
          /\ req[1].resp.remaining > 0
          /\ req[1].resp.resetTime = row.timestamp + Window

\* C16 (SpecBatch): with the store reachable, a request that the limiter allowed is
\* answered 200 and nothing else, with one result per submitted domain; the domains of
\* a batch whose external call failed are in it with error = true and
\* "Error: API request failed".
C16_ApiFailuresStayInResults ==
    [][\A r \in Slots :
          (InLoop(r) /\ req'[r].pc = "done") =>
              /\ req'[r].resp.status = 200
              /\ Len(req'[r].resp.results) = DomainCount(r)
              /\ Len(req[r].apiLog) * BatchSize >= DomainCount(r)
              /\ \A b \in 1..Len(req[r].apiLog) :
                    req[r].apiLog[b].kind # "ok" =>
                        \A k \in ((b - 1) * BatchSize + 1)..Min(b * BatchSize, DomainCount(r)) :
                            /\ req'[r].resp.results[k].error
                            /\ req'[r].resp.results[k].status = "Error: API request failed"]_vars

\* a request of more than one batch was answered 200 although every external call failed
C16_Witness ==
    /\ Answered(1, 200)
    /\ DomainCount(1) > BatchSize
    /\ \A k \in 1..DomainCount(1) :
          req[1].resp.results[k].status = "Error: API request failed"
    /\ OutcomeCounters.errors >= DomainCount(1)

\* C17 (SpecFail), as claimed: whatever happens to the store after the limiter has
\* allowed a request, the request is answered 200 with its results and the limiter's
\* remaining and resetTime.
C17_StatsFailureSwallowed ==
    [][\A r \in Slots :
          (InLoop(r) /\ req'[r].pc = "done") =>
              /\ req'[r].resp.status = 200
              /\ req'[r].resp.results = req[r].results
              /\ req'[r].resp.remaining = req[r].rateLimit.remaining
              /\ req'[r].resp.resetTime = req[r].rateLimit.resetTime]_vars

UniqueUsers == IF SelectStats(stats) = <<>> THEN <<>> ELSE SelectStats(stats)[1].unique_users

\* C19 (SpecSeq), as claimed: the unique-user collection holds no client twice, and
\* once a check request of a client has been answered 200 it holds that client.
C19_UniqueUsersRecorded ==
    /\ \A j, k \in 1..Len(UniqueUsers) : UniqueUsers[j] = UniqueUsers[k] => j = k
    /\ \A r \in Slots :
          (Answered(r, 200) /\ req[r].route = "/check") =>
              \E k \in 1..Len(UniqueUsers) : UniqueUsers[k] = req[r].ip

\* checkRateLimit (db.ts 210-288) run on the table tbl without interruption, by whatever
\* isolate: the table it leaves and what it returns
LimiterOnStore(tbl, ip, n, t) ==
    LET kept == PurgeRateLimits(tbl, t - Window)
        rows == SelectRateLimit(kept, ip)
        count == IF rows = {} THEN 0 ELSE (CHOOSE row \in rows : TRUE).count
    IN IF count + n > MaxDomains
       THEN [table |-> kept, allowed |-> FALSE, remaining |-> MaxDomains - count]
       ELSE [table |-> IF rows = {} THEN InsertRateLimit(kept, ip, n, t)
                       ELSE UpdateRateLimit(kept, ip, count + n, t),
             allowed |-> TRUE, remaining |-> MaxDomains - (count + n)]

\* C20 (SpecIso): whichever isolate serves a request, and whatever that isolate has
\* served before, the step on which its checkRateLimit returns delivers the decision
\* and leaves the table that the stored entries, the client, the size and the time of
\* the call determine.  A sequence of requests therefore gets the same outcomes and
\* remaining values from two isolates sharing the store as from one.
C20_DecisionFromStoreOnly ==
    [][\A r \in Slots :
          (req[r].pc \in RlPcs /\ req'[r].pc \notin RlPcs) =>
              LET ref == LimiterOnStore(rate_limits, req[r].ip, DomainCount(r), req[r].now)
              IN /\ rate_limits' = ref.table
                 /\ IF req'[r].pc = "done"
                    THEN /\ req'[r].resp.status = 429 /\ ~ref.allowed
                         /\ req'[r].resp.remaining = ref.remaining
                    ELSE /\ req'[r].rateLimit.allowed /\ ref.allowed
                         /\ req'[r].rateLimit.remaining = ref.remaining]_vars

\* the first request that isolate 2 ever serves has been allowed what the entry
\* written by a request served by isolate 1 left of the quota
C20_Witness ==
    /\ Answered(1, 200) /\ DomainCount(1) > 0
    /\ arrivals = 2 /\ req[2].pc = "fetch"
    /\ req[2].rateLimit.allowed
    /\ req[2].rateLimit.remaining = MaxDomains - (DomainCount(1) + DomainCount(2))
    /\ \E row \in rate_limits :
          row.ip = req[2].ip /\ row.count = DomainCount(1) + DomainCount(2)

\* C21 (SpecStats): the step that answers a check request 200 leaves the four outcome
\* counters of the stored row at the tallies of all requests answered 200 so far, that
\* one included, and total_requests above what it was; a GET /stats/data served by
\* another isolate answers 200 with the stored row as it is at its read, so that its
\* counts cover every check request answered 200 before that read.
C21_StatsStoredBeforeAnswer ==
    [][\A r \in Slots :
          /\ (req[r].pc # "done" /\ req'[r].pc = "done" /\ req'[r].route = "/check"
                 /\ req'[r].resp.status = 200) =>
                 /\ OutcomeCounters' = tallied'
                 /\ tallied' = AddTally(tallied, TallyOf(req'[r].resp.results))
                 /\ TotalRequests' > TotalRequests
          /\ (req[r].pc = "gs_select" /\ req[r].site = "data" /\ req'[r].pc = "done") =>
                 /\ req'[r].resp.status = 200
                 /\ req'[r].resp.stats = <<StatsJson(SelectStats(stats)[1])>>
                 /\ req'[r].resp.stats[1].totalDomainsChecked = tallied.domainsChecked
                 /\ req'[r].resp.stats[1].blockedDomains = tallied.blocked
                 /\ req'[r].resp.stats[1].notBlockedDomains = tallied.notBlocked
                 /\ req'[r].resp.stats[1].errorDomains = tallied.errors]_vars

\* isolate 2, which has served no check request, has reported the blocked and failed
\* domains of a check request that isolate 1 answered 200
C21_Witness ==
    /\ Answered(1, 200) /\ DomainCount(1) > 0
    /\ Answered(2, 200) /\ req[2].route = "/stats/data"
    /\ req[2].resp.stats[1].totalDomainsChecked = tallied.domainsChecked
    /\ req[2].resp.stats[1].blockedDomains > 0
    /\ req[2].resp.stats[1].errorDomains > 0
    /\ req[2].resp.stats[1].totalRequests >= 2

\* checkRateLimit has returned to its direct caller
Returned(r) == req[r].fn = "checkRateLimit" /\ req[r].pc = "idle" /\ req[r].ret = "ok"
\* slot r takes a step of the checkRateLimit it is in, at the await pc
RlStep(r, pc) == req[r].pc = pc /\ req'[r] # req[r]
\* the stored entry of the client of slot r, as a set of rows
Entry(r) == SelectRateLimit(rate_limits, req[r].ip)

\* C22 (SpecRl): a checkRateLimit that finds no entry for the client and is asked for
\* no more than maxDomains goes on to the INSERT, which adds the entry
\* (ip, requestedDomainCount, now) and nothing else, and the call returns
\* allowed = true, remaining = maxDomains - requestedDomainCount,
\* resetTime = now + window, now being the time read at the start of the call.
C22_FreshClientAllowed ==
    [][\A r \in Slots :
          /\ (RlStep(r, "rl_select") /\ Entry(r) = {} /\ DomainCount(r) <= MaxDomains) =>
                 req'[r].pc = "rl_insert" /\ rate_limits' = rate_limits
          /\ RlStep(r, "rl_insert") =>
                 /\ Entry(r) = {}
                 /\ rate_limits' = rate_limits \cup
                        {[ip |-> req[r].ip, count |-> DomainCount(r), timestamp |-> req[r].now]}
                 /\ Returned(r)'
                 /\ req'[r].rateLimit = [allowed |-> TRUE,
                                          remaining |-> MaxDomains - DomainCount(r),
                                          resetTime |-> req[r].now + Window]]_vars

\* a client without entry asked for exactly maxDomains and was allowed with nothing
\* remaining, while the clock moved on during the call
C22_Witness ==
    /\ Returned(1)
    /\ DomainCount(1) = MaxDomains
    /\ req[1].rateLimit.allowed /\ req[1].rateLimit.remaining = 0
    /\ req[1].now < now
    /\ Entry(1) = {[ip |-> req[1].ip, count |-> MaxDomains, timestamp |-> req[1].now]}

\* C23 (SpecRl): a checkRateLimit that finds no entry for the client and is asked for
\* more than maxDomains returns on that step allowed = false, remaining = maxDomains,
\* resetTime = now + window; the table is unchanged and holds no entry of the client.
C23_FreshClientRejected ==
    [][\A r \in Slots :
          (RlStep(r, "rl_select") /\ Entry(r) = {} /\ DomainCount(r) > MaxDomains) =>
              /\ Returned(r)'
              /\ req'[r].rateLimit = [allowed |-> FALSE, remaining |-> MaxDomains,
                                       resetTime |-> req[r].now + Window]
              /\ rate_limits' = rate_limits
              /\ Entry(r)' = {}]_vars

\* a client without entry was refused maxDomains + 1 while another client holds one
C23_Witness ==
    /\ Returned(1)
    /\ DomainCount(1) = MaxDomains + 1
    /\ ~req[1].rateLimit.allowed /\ req[1].rateLimit.remaining = MaxDomains
    /\ Entry(1) = {}
    /\ rate_limits # {}

\* C24 (SpecRl): a checkRateLimit that finds an entry of the client (one the purge left:
\* its timestamp is not older than now - window) with entry.count +
\* requestedDomainCount > maxDomains returns on that step allowed = false,
\* remaining = maxDomains - entry.count and resetTime = entry.timestamp + window.
C24_ExistingClientRejected ==
    [][\A r \in Slots :
          \A entry \in Entry(r) :
              (RlStep(r, "rl_select") /\ entry.count + DomainCount(r) > MaxDomains) =>
                  /\ entry.timestamp >= req[r].now - Window
                  /\ Returned(r)'
                  /\ req'[r].rateLimit = [allowed |-> FALSE,
                                           remaining |-> MaxDomains - entry.count,
                                           resetTime |-> entry.timestamp + Window]]_vars

\* a client with quota left was refused at an instant later than that of its entry:
\* the reset time it was given is earlier than now + window
C24_Witness ==
    /\ Returned(1)
    /\ ~req[1].rateLimit.allowed
    /\ req[1].rateLimit.remaining \in 1..(MaxDomains - 1)
    /\ \E entry \in Entry(1) :
          /\ entry.timestamp < req[1].now
          /\ req[1].rateLimit.resetTime = entry.timestamp + Window
          /\ req[1].rateLimit.remaining = MaxDomains - entry.count

\* C25 (SpecRl): no step of a checkRateLimit that ends in a rejection changes the
\* entry of its client: the purge keeps it (it is found afterwards), and the step that
\* rejects changes no row of the table.
C25_RejectionKeepsEntry ==
    [][\A r \in Slots :
          /\ (RlStep(r, "rl_select") /\ Returned(r)' /\ ~req'[r].rateLimit.allowed) =>
                 rate_limits' = rate_limits
          /\ (RlStep(r, "rl_delete") /\ Entry(r)' # {}) => Entry(r)' = Entry(r)]_vars

\* the third call of a run was refused at an instant later than that of the client's
\* entry, which still holds the count and the time of the calls that were allowed
C25_Witness ==
    /\ arrivals = 3
    /\ Returned(1)
    /\ ~req[1].rateLimit.allowed
    /\ DomainCount(1) \in 1..MaxDomains
    /\ \E entry \in Entry(1) :
          /\ entry.count = granted[req[1].ip]
          /\ entry.timestamp = windowFirst[req[1].ip]
          /\ entry.timestamp < req[1].now

\* C26 (SpecRl), as claimed: the UPDATE of an allowed top-up leaves the timestamp of
\* the client's entry as it was.
C26_TopUpKeepsTimestamp ==
    [][\A r \in Slots :
          RlStep(r, "rl_update") =>
              \A entry \in Entry(r) : \A after \in Entry(r)' :
                  after.timestamp = entry.timestamp]_vars

\* C27 (SpecRl): a checkRateLimit that finds an entry of the client with entry.count +
\* requestedDomainCount <= maxDomains goes on to the UPDATE, which sets the entry's
\* count to entry.count + requestedDomainCount and touches no other client's entry,
\* and the call returns allowed = true, remaining = maxDomains - (entry.count +
\* requestedDomainCount), resetTime = now + window.
C27_TopUpAllowed ==
    [][\A r \in Slots :
          \A entry \in Entry(r) :
              /\ (RlStep(r, "rl_select") /\ entry.count + DomainCount(r) <= MaxDomains) =>
                     req'[r].pc = "rl_update" /\ rate_limits' = rate_limits
              /\ RlStep(r, "rl_update") =>
                     /\ \A after \in Entry(r)' : after.count = entry.count + DomainCount(r)
                     /\ Entry(r)' # {}
                     /\ rate_limits' \ Entry(r)' = rate_limits \ Entry(r)
                     /\ Returned(r)'
                     /\ req'[r].rateLimit =
                            [allowed |-> TRUE,
                             remaining |-> MaxDomains - (entry.count + DomainCount(r)),
                             resetTime |-> req[r].now + Window]]_vars

\* a client topped its entry up to exactly maxDomains with a call of several domains
C27_Witness ==
    /\ Returned(1)
    /\ req[1].rateLimit.allowed /\ req[1].rateLimit.remaining = 0
    /\ DomainCount(1) \in 2..(MaxDomains - 1)
    /\ \E entry \in Entry(1) : entry.count = MaxDomains

\* C28 (SpecRl), as claimed: the resetTime returned with an allowed top-up is the
\* resetTime that the reject path computes from the same entry at the same instant.
C28_SameResetPolicy ==
    [][\A r \in Slots :
          \A entry \in Entry(r) :
              RlStep(r, "rl_update") =>
                  req'[r].rateLimit.resetTime = RejectExisting(req[r], entry).resetTime]_vars

\* C29 (SpecRl): the first step of every checkRateLimit is the DELETE, which leaves
\* exactly the rows of the table, of whatever client, whose timestamp is not older
\* than now - window; the lookup of the client is the step after it.
C29_PurgeBeforeLookup ==
    [][\A r \in Slots :
          /\ (req[r].pc = "idle" /\ req'[r].pc # "idle") => req'[r].pc = "rl_delete"
          /\ RlStep(r, "rl_delete") =>
                 /\ rate_limits' = {row \in rate_limits : row.timestamp >= req[r].now - Window}
                 /\ req'[r].pc = "rl_select"
          /\ (req[r].pc # "rl_select" /\ req'[r].pc = "rl_select") => req[r].pc = "rl_delete"]_vars

\* a call of a client whose own entry had expired removed it and kept the entry of
\* the other client, which is exactly one window old
C29_Witness ==
    /\ req[1].pc = "rl_select" /\ req[1].fn = "checkRateLimit"
    /\ req[1].stale
    /\ Entry(1) = {}
    /\ \E row \in rate_limits : row.ip # req[1].ip /\ row.timestamp = req[1].now - Window

\* C30 (SpecConc), as claimed: with requests in flight together and the store
\* reachable, no step of an initializeTables ends its request with 500, and the stats
\* table never holds more than one row.
C30_ConcurrentInitSucceeds ==
    [][\A r \in Slots :
          (req[r].pc \in ItPcs /\ req'[r] # req[r]) =>
              /\ ~(req'[r].pc = "done" /\ req'[r].resp.status = 500)
              /\ Len(stats') <= 1]_vars

\* C31 (SpecLoop): a request has at most one external call outstanding, and it issues
\* a call only when every call it issued before has completed and its results have
\* been appended.
C31_BatchesInSequence ==
    [][\A r \in Slots :
          /\ req'[r].inflight <= 1
          /\ Len(req'[r].sent) > Len(req[r].sent) =>
                 /\ req[r].inflight = 0
                 /\ Len(req[r].apiLog) = Len(req[r].sent)
                 /\ Len(req[r].results) = req[r].i
                 /\ Len(req'[r].sent) = Len(req[r].sent) + 1]_vars

\* the call for the second batch of a request is outstanding; the call for the first
\* has failed and the domains of the first batch have their results
C31_Witness ==
    /\ req[1].pc = "fetching" /\ req[1].inflight = 1
    /\ Len(req[1].sent) = 2
    /\ Len(req[1].apiLog) = 1 /\ req[1].apiLog[1].kind = "network"
    /\ Len(req[1].results) = BatchSize

\* the batches b[1] \o b[2] \o ... in order
RECURSIVE Concat(_)
Concat(bs) == IF bs = <<>> THEN <<>> ELSE Head(bs) \o Concat(Tail(bs))

\* ceil(n / batchSize)
BatchCount(n) == (n + BatchSize - 1) \div BatchSize

\* the request is past its batch loop, at the final incrementStats
PastLoop(r) == req[r].pc \in {"is_select", "is_update"} /\ req[r].site = "final"

\* C32 (SpecLoop): the batches for which a request issues external calls are, in order,
\* consecutive pieces of the submitted list, each of batchSize domains except the last,
\* which has at most batchSize and at least one; never more than ceil(n / batchSize)
\* calls are issued, every call completed counts for one batch whether it failed or
\* not (none is repeated), and the completion of call number ceil(n / batchSize) ends
\* the loop: the request is then at its final stats update with ceil(n / batchSize)
\* calls issued and completed, whose batches concatenated are the submitted list.
C32_OneCallPerBatch ==
    [][\A r \in Slots :
          LET n == DomainCount(r)
              sent == req'[r].sent
          IN /\ Len(sent) <= BatchCount(n)
             /\ \A k \in 1..Len(sent) :
                    /\ sent[k] = SubSeq(req'[r].body.items, (k - 1) * BatchSize + 1,
                                         Min(k * BatchSize, n))
                    /\ Len(sent[k]) \in 1..BatchSize
                    /\ k < BatchCount(n) => Len(sent[k]) = BatchSize
             /\ Len(req'[r].apiLog) > Len(req[r].apiLog) =>
                    /\ Len(req'[r].apiLog) = Len(req[r].apiLog) + 1
                    /\ req'[r].i = req[r].i + BatchSize
                    /\ Len(req'[r].results) = Min(req'[r].i, n)
                    /\ PastLoop(r)' <=> Len(req'[r].apiLog) = BatchCount(n)
             /\ PastLoop(r)' =>
                    /\ Len(sent) = BatchCount(n)
                    /\ Len(req'[r].apiLog) = BatchCount(n)
                    /\ req'[r].inflight = 0
                    /\ Concat(sent) = req'[r].body.items]_vars

\* a list of batchSize + 1 different domains went out as two batches, the first of
\* which failed, and the request is at its final stats update
C32_Witness ==
    /\ PastLoop(1)
    /\ DomainCount(1) = BatchSize + 1
    /\ req[1].body.items[1] # req[1].body.items[2]
    /\ Len(req[1].sent) = 2 /\ Len(req[1].sent[2]) = 1
    /\ req[1].apiLog[1].kind = "network" /\ req[1].apiLog[2].kind = "ok"

\* C33 (SpecLoop): a POST /check takes its steps in this order.  While it is in
\* checkRateLimit it has issued no external call and changes no outcome counter.  It
\* issues an external call only after checkRateLimit has returned allowed = true and
\* the client's entry holds the request's domains.  The outcome counters change only
\* on the UPDATE of the final incrementStats, when every batch has been issued and
\* completed.  It is answered 200 only on that step, with the remaining and resetTime
\* that checkRateLimit returned; it is answered 429 without having issued a call.
C33_PipelineOrder ==
    [][\A r \in Slots :
          LET q == req[r]
              n == DomainCount(r)
          IN /\ (q.pc \in RlPcs /\ req'[r] # q) =>
                    /\ q.sent = <<>> /\ req'[r].sent = <<>>
                    /\ OutcomeCounters' = OutcomeCounters
             /\ Len(req'[r].sent) > Len(q.sent) =>
                    /\ q.pc \notin RlPcs
                    /\ q.rateLimit.allowed
                    /\ \E row \in rate_limits : row.ip = q.ip /\ row.count >= n
                    /\ OutcomeCounters' = OutcomeCounters
             /\ (req'[r] # q /\ OutcomeCounters' # OutcomeCounters) =>
                    /\ PastLoop(r) /\ q.pc = "is_update"
                    /\ Len(q.apiLog) = BatchCount(n) /\ q.inflight = 0
                    /\ Len(q.results) = n
             /\ (q.pc # "done" /\ req'[r].pc = "done" /\ req'[r].resp.status = 200) =>
                    /\ PastLoop(r) /\ q.pc = "is_update"
                    /\ q.rateLimit.allowed
                    /\ req'[r].resp.remaining = q.rateLimit.remaining
                    /\ req'[r].resp.resetTime = q.rateLimit.resetTime
                    /\ req'[r].resp.results = q.results
             /\ (q.pc # "done" /\ req'[r].pc = "done" /\ req'[r].resp.status = 429) =>
                    /\ q.pc \in RlPcs /\ q.sent = <<>>]_vars

\* a request of two batches that topped up the client's entry has been answered 200
\* with what the limiter left of the quota, its domains counted
C33_Witness ==
    /\ Answered(1, 200)
    /\ DomainCount(1) > BatchSize
    /\ OutcomeCounters = tallied
    /\ \E row \in rate_limits :
          /\ row.ip = req[1].ip /\ row.count > DomainCount(1)
          /\ req[1].resp.remaining = MaxDomains - row.count
          /\ req[1].resp.resetTime = row.timestamp + Window

IsPcs == {"is_select", "is_insert", "is_update"}

\* row with every counter raised by its delta in d (0 where none is given)
Raised(row, d) ==
    [row EXCEPT !.total_requests = @ + d.requests,
                !.total_domains_checked = @ + d.domainsChecked,
                !.blocked_domains = @ + d.blocked,
                !.not_blocked_domains = @ + d.notBlocked,
                !.error_domains = @ + d.errors]

\* C34 (SpecDb): an incrementStats whose deltas are all absent or zero returns at
\* once and is never at a store statement.  Of the steps of any other, the SELECT
\* changes nothing; the INSERT, issued when the SELECT found no row, at most adds the
\* default row, whose counters are 0; the UPDATE alone changes counters: it leaves the
\* row with each counter raised by exactly its delta, id, last_reset and unique_users
\* as they were (or changes nothing, when the store fails).  No step changes a
\* rate-limit entry or the set of tables.
C34_IncrementStatsFrame ==
    [][\A r \in Slots :
          LET q == req[r]
          IN /\ req'[r].pc \in IsPcs => Updates(req'[r].delta) # {}
             /\ (q.pc \in IsPcs \cup {"idle"} /\ req'[r] # q /\ req'[r].pc \in IsPcs \cup {"idle"})
                   => rate_limits' = rate_limits /\ tables' = tables
             /\ (q.pc \in {"idle", "is_select"} /\ req'[r] # q
                   /\ req'[r].pc \in IsPcs \cup {"idle"}) => stats' = stats
             /\ (q.pc = "is_insert" /\ req'[r] # q) =>
                    \/ stats' = stats
                    \/ SelectStats(stats) = <<>> /\ stats' = Append(stats, DefaultStatsRow(now))
             /\ (q.pc = "is_update" /\ req'[r] # q) =>
                    \/ stats' = stats /\ req'[r].ret = "throw"
                    \/ /\ Len(stats') = Len(stats)
                       /\ \A k \in 1..Len(stats) : stats'[k] = Raised(stats[k], q.delta)
                       /\ req'[r].ret = "ok"]_vars

\* incrementStats has returned after raising some counters of a row that was seeded
\* at an earlier instant; a call without deltas has returned too
C34_Witness ==
    /\ req[1].fn = "incrementStats" /\ req[1].pc = "idle" /\ req[1].ret = "ok"
    /\ "incrementStats(noop)" \in succeeded
    /\ Len(stats) = 1
    /\ stats[1].last_reset < now
    /\ stats[1].total_requests = 1 /\ stats[1].total_domains_checked = 2
    /\ stats[1].error_domains = 1 /\ stats[1].not_blocked_domains = 0

\* C35 (SpecRlConc): whatever the interleaving of calls for the same or for different
\* clients, the count of every stored rate-limit entry is between 0 and maxDomains.
C35_StoredCountBounded ==
    \A row \in rate_limits : row.count \in 0..MaxDomains

\* two calls of one client that overlapped were both allowed, together for more than
\* maxDomains, while the other client holds an entry too
C35_Witness ==
    /\ \A r \in Slots : Returned(r) /\ req[r].rateLimit.allowed /\ req[r].ip = "ip1"
    /\ DomainCount(1) + DomainCount(2) > MaxDomains
    /\ granted["ip1"] > MaxDomains
    /\ \E row \in rate_limits : row.ip = "ip1" /\ row.count = MaxDomains
    /\ \E row \in rate_limits : row.ip = "ip2"

\* C36 (SpecBatch): in every state every stats row has total_domains_checked =
\* blocked_domains + not_blocked_domains + error_domains; and a request in its batch
\* loop has counted every result it holds in exactly one of its three tallies.
C36_TalliesAddUp ==
    /\ \A k \in 1..Len(stats) :
          stats[k].total_domains_checked =
             stats[k].blocked_domains + stats[k].not_blocked_domains + stats[k].error_domains
    /\ \A r \in Slots :
          InLoop(r) =>
             /\ req[r].processed = Len(req[r].results)
             /\ req[r].processed = req[r].blocked + req[r].notBlocked + req[r].errors

\* two requests have been counted (each once on arrival and once with its outcome),
\* and the row holds blocked, not blocked and failed domains at once
C36_Witness ==
    /\ Len(stats) = 1
    /\ stats[1].total_requests = 4
    /\ stats[1].blocked_domains > 0
    /\ stats[1].not_blocked_domains > 0
    /\ stats[1].error_domains > 0
    /\ stats[1].total_domains_checked > 3

\* C37 (SpecRlConc): at the step at which a checkRateLimit returns without having
\* caught a store error, if the table then holds an entry of its client, the resetTime
\* returned is that entry's timestamp plus the window.
C37_ResetTimeFollowsEntry ==
    [][\A r \in Slots :
          (~Returned(r) /\ Returned(r)' /\ ~req'[r].threw) =>
              \A entry \in Entry(r)' :
                  req'[r].rateLimit.resetTime = entry.timestamp + Window]_vars

\* a top-up was allowed at an instant later than that of the calls before it: the
\* entry holds more than this call asked for, its timestamp is the time of this call
C37_Witness ==
    /\ Returned(1)
    /\ ~req[1].threw
    /\ req[1].rateLimit.allowed
    /\ req[1].now > 0
    /\ \E entry \in Entry(1) :
          /\ entry.count > DomainCount(1)
          /\ DomainCount(1) > 0
          /\ entry.timestamp = req[1].now
          /\ req[1].rateLimit.resetTime = entry.timestamp + Window

\* C38 (SpecQuota): the INSERT or UPDATE of an allowed request leaves the client's
\* entry with the count it found plus the request's full domain count, and no later
\* step of that request, whether an external call that fails, the final stats update
\* that fails, or its answer (200 or 500), changes any rate-limit entry.
C38_QuotaNotGivenBack ==
    [][\A r \in Slots :
          LET n == DomainCount(r)
              found == IF Entry(r) = {} THEN 0 ELSE (CHOOSE entry \in Entry(r) : TRUE).count
          IN /\ ((RlStep(r, "rl_insert") \/ RlStep(r, "rl_update")) /\ ~req'[r].threw) =>
                    /\ req'[r].rateLimit.allowed
                    /\ \E entry \in Entry(r)' : entry.count = found + n
             /\ (InLoop(r) /\ req'[r] # req[r]) => rate_limits' = rate_limits]_vars

\* the second request of the client was allowed by the limiter and answered 500, its
\* final stats update failing; the entry holds its domains on top of those of the
\* first request
C38_Witness ==
    /\ Answered(1, 500)
    /\ arrivals = 2
    /\ ~req[1].threw
    /\ DomainCount(1) > 0
    /\ tallied.domainsChecked > 0
    /\ \E entry \in Entry(1) :
          /\ entry.count = tallied.domainsChecked + DomainCount(1)
          /\ entry.count = granted[req[1].ip]

\* the call of slot r has returned a rejection
Rejected(r) == Returned(r) /\ ~req[r].rateLimit.allowed
\* the call of slot r has returned allowed = true
Allowed(r) == Returned(r) /\ req[r].rateLimit.allowed

====
